---- MODULE Spec2Model ----
(***************************************************************************)
(* Model of the LiveTutor voice session manager (components/LiveTutor):    *)
(* startSession / stopSession, the channel callbacks onopen, onmessage,    *)
(* onclose and onerror, the playback scheduling around decodeAudioData,    *)
(* the tool-call acknowledgement and the pronunciation tip timer.          *)
(*                                                                         *)
(* Every invocation of startSession is numbered 1, 2, ...; the objects it  *)
(* creates (two AudioContexts, the MediaStream, the channel) carry that    *)
(* number. A ref holds 0 for null or the number of the object it points    *)
(* to. Each inbound audio chunk is numbered in arrival order.              *)
(***************************************************************************)
EXTENDS Integers, Sequences, FiniteSets

\* ---------------------------------------------------------------- bounds
MaxSessions == 3      \* startSession invocations in one run
MaxChunks == 2        \* inbound audio chunks in one run
MaxDur == 2           \* longest chunk duration, in clock units
MaxTime == 1          \* the output clock is observed up to this value
MaxCalls == 2         \* tool invocations delivered in one run
MaxInterrupts == 1    \* interrupted signals processed in one run
MaxTranscript == 2    \* output-transcription fragments accumulated

VARIABLES
  \* React state (useState)
  isConnected, status, errorMessage, aiSpeaking,
  userTranscript, aiTranscript, currentTip,
  \* refs (useRef); 0 is null
  inputContextRef, outputContextRef, streamRef, processorRef, sourceRef,
  sessionPromiseRef, nextStartTimeRef, audioSourcesRef, tipTimeoutRef,
  \* the component is mounted
  mounted,
  \* per startSession invocation
  nStarts,       \* number of startSession invocations so far
  pc,            \* position of the invocation
  stream,        \* the MediaStream getUserMedia gave it
  inCtx, outCtx, \* the AudioContexts it created
  clock,         \* currentTime of its output context
  outNode,       \* the context its outputNode belongs to
  chan,          \* its channel
  closeQueued,   \* a then(session => session.close()) waits on its promise
  stoppedEarly,  \* invocations that were acquiring when stopSession ran
  \* playback
  chunks,        \* one record per inbound audio chunk, in arrival order
  nSched,        \* number of source.start calls so far
  intrCount,     \* number of interrupted signals processed so far
  \* tool calls
  toolCalls,     \* invocations delivered, in order
  toolResponses, \* function responses sent, in order
  timers,        \* pending setTimeout ids
  nTimers,       \* number of setTimeout calls so far
  \* history
  heard          \* output-transcription fragments received since the last
                 \* start, turn-complete signal or interrupted signal

uiVars == <<isConnected, status, errorMessage, aiSpeaking, userTranscript,
            aiTranscript, currentTip, mounted>>
refVars == <<inputContextRef, outputContextRef, streamRef, processorRef,
             sourceRef, sessionPromiseRef, nextStartTimeRef, audioSourcesRef,
             tipTimeoutRef>>
sessVars == <<nStarts, pc, stream, inCtx, outCtx, clock, outNode, chan,
              closeQueued, stoppedEarly>>
playVars == <<chunks, nSched, intrCount>>
toolVars == <<toolCalls, toolResponses, timers, nTimers>>
vars == <<uiVars, refVars, sessVars, playVars, toolVars, heard>>

Sessions == 1..MaxSessions

Max(a, b) == IF a >= b THEN a ELSE b

NoError == "null"
MicError == "Could not access microphone or connect."
ConnError == "Connection error. Please try again."

TipTool == "showPronunciationTip"

\* a tip is <<>> (null) or <<args>>, args the set of argument names present
NoTip == <<>>

Init ==
  /\ isConnected = FALSE
  /\ status = "idle"
  /\ errorMessage = NoError
  /\ aiSpeaking = FALSE
  /\ userTranscript = <<>>
  /\ aiTranscript = <<>>
  /\ currentTip = NoTip
  /\ inputContextRef = 0
  /\ outputContextRef = 0
  /\ streamRef = 0
  /\ processorRef = 0
  /\ sourceRef = 0
  /\ sessionPromiseRef = 0
  /\ nextStartTimeRef = 0
  /\ audioSourcesRef = {}
  /\ tipTimeoutRef = 0
  /\ mounted = TRUE
  /\ nStarts = 0
  /\ pc = [i \in Sessions |-> "none"]
  /\ stream = [i \in Sessions |-> "none"]
  /\ inCtx = [i \in Sessions |-> "none"]
  /\ outCtx = [i \in Sessions |-> "none"]
  /\ clock = [i \in Sessions |-> 0]
  /\ outNode = [i \in Sessions |-> 0]
  /\ chan = [i \in Sessions |-> "none"]
  /\ closeQueued = [i \in Sessions |-> FALSE]
  /\ stoppedEarly = {}
  /\ chunks = <<>>
  /\ nSched = 0
  /\ intrCount = 0
  /\ toolCalls = <<>>
  /\ toolResponses = <<>>
  /\ timers = {}
  /\ nTimers = 0
  /\ heard = <<>>

\* ------------------------------------------------------------ stopSession
\* session.close() on the session of channel state c: an open socket starts
\* closing, any other is left as it is
Close(c) == IF c = "open" THEN "closing" ELSE c

\* invocation i awaits getUserMedia or the opening of its channel
Acquiring(i, ch) == pc[i] = "awaitMic" \/ ch[i] = "connecting"

\* stopSession; chanBase is the channel state the calling handler leaves
StopSessionBody(chanBase) ==
  /\ isConnected' = FALSE
  /\ status' = "idle"
  /\ aiSpeaking' = FALSE
  /\ timers' = timers \ {tipTimeoutRef}
  /\ stream' = IF streamRef # 0
                 THEN [stream EXCEPT ![streamRef] = "stopped"] ELSE stream
  /\ streamRef' = 0
  /\ sourceRef' = 0
  /\ processorRef' = 0
  /\ inCtx' = IF inputContextRef # 0
                THEN [inCtx EXCEPT ![inputContextRef] = "closed"] ELSE inCtx
  /\ inputContextRef' = 0
  /\ outCtx' = IF outputContextRef # 0
                 THEN [outCtx EXCEPT ![outputContextRef] = "closed"] ELSE outCtx
  /\ outputContextRef' = 0
  /\ IF sessionPromiseRef = 0
       THEN chan' = chanBase /\ closeQueued' = closeQueued
       ELSE IF chanBase[sessionPromiseRef] = "connecting"
         THEN /\ chan' = chanBase
              /\ closeQueued' = [closeQueued EXCEPT ![sessionPromiseRef] = TRUE]
         ELSE /\ chan' = [chanBase EXCEPT ![sessionPromiseRef] = Close(@)]
              /\ closeQueued' = closeQueued
  /\ sessionPromiseRef' = 0
  /\ stoppedEarly' = stoppedEarly \cup {i \in Sessions : Acquiring(i, chanBase)}
  /\ UNCHANGED <<userTranscript, aiTranscript, currentTip, nextStartTimeRef,
                 audioSourcesRef, tipTimeoutRef, nStarts, pc, clock, outNode,
                 playVars, toolCalls, toolResponses, nTimers>>
  /\ UNCHANGED heard

\* the End Session button, shown while isConnected
StopSession ==
  /\ mounted
  /\ isConnected
  /\ StopSessionBody(chan)
  /\ UNCHANGED <<errorMessage, mounted>>

\* the cleanup of the unmount effect
Unmount ==
  /\ mounted
  /\ mounted' = FALSE
  /\ StopSessionBody(chan)
  /\ UNCHANGED errorMessage

\* ----------------------------------------------------------- startSession
\* the Start Conversation button, shown while not isConnected and disabled
\* while status is connecting; runs startSession up to the await of getUserMedia
StartSession(maxStarts) ==
  /\ mounted
  /\ ~isConnected
  /\ status # "connecting"
  /\ nStarts < maxStarts
  /\ nStarts' = nStarts + 1
  /\ status' = "connecting"
  /\ errorMessage' = NoError
  /\ userTranscript' = <<>>
  /\ aiTranscript' = <<>>
  /\ currentTip' = NoTip
  /\ inCtx' = [inCtx EXCEPT ![nStarts + 1] = "running"]
  /\ outCtx' = [outCtx EXCEPT ![nStarts + 1] = "running"]
  /\ inputContextRef' = nStarts + 1
  /\ outputContextRef' = nStarts + 1
  /\ pc' = [pc EXCEPT ![nStarts + 1] = "awaitMic"]
  /\ UNCHANGED <<isConnected, aiSpeaking, mounted, streamRef, processorRef,
                 sourceRef, sessionPromiseRef, nextStartTimeRef,
                 audioSourcesRef, tipTimeoutRef, stream, clock, outNode, chan,
                 closeQueued, stoppedEarly, playVars, toolVars>>
  /\ heard' = <<>>

\* getUserMedia resolves: the rest of the try block, or the catch when
\* outputContextRef.current is null by now
MicResolved(i) ==
  /\ pc[i] = "awaitMic"
  /\ pc' = [pc EXCEPT ![i] = "done"]
  /\ stream' = [stream EXCEPT ![i] = "live"]
  /\ streamRef' = i
  /\ IF outputContextRef = 0
       THEN /\ errorMessage' = MicError
            /\ status' = "error"
            /\ UNCHANGED <<outNode, chan, sessionPromiseRef>>
       ELSE /\ outNode' = [outNode EXCEPT ![i] = outputContextRef]
            /\ chan' = [chan EXCEPT ![i] = "connecting"]
            /\ sessionPromiseRef' = i
            /\ UNCHANGED <<errorMessage, status>>
  /\ UNCHANGED <<isConnected, aiSpeaking, userTranscript, aiTranscript,
                 currentTip, mounted, inputContextRef, outputContextRef,
                 processorRef, sourceRef, nextStartTimeRef, audioSourcesRef,
                 tipTimeoutRef, nStarts, inCtx, outCtx, clock, closeQueued,
                 stoppedEarly, playVars, toolVars>>
  /\ UNCHANGED heard

\* getUserMedia rejects: the catch
MicRejected(i) ==
  /\ pc[i] = "awaitMic"
  /\ pc' = [pc EXCEPT ![i] = "done"]
  /\ errorMessage' = MicError
  /\ status' = "error"
  /\ UNCHANGED <<isConnected, aiSpeaking, userTranscript, aiTranscript,
                 currentTip, mounted, refVars, nStarts, stream, inCtx, outCtx,
                 clock, outNode, chan, closeQueued, stoppedEarly, playVars,
                 toolVars>>
  /\ UNCHANGED heard

\* ------------------------------------------------------ channel callbacks
\* onopen, then the session promise resolves and a queued close runs
OnOpen(i) ==
  /\ chan[i] = "connecting"
  /\ status' = "active"
  /\ isConnected' = TRUE
  /\ IF inputContextRef = 0
       THEN UNCHANGED <<sourceRef, processorRef>>
       ELSE sourceRef' = inputContextRef /\ processorRef' = inputContextRef
  /\ chan' = [chan EXCEPT ![i] = IF closeQueued[i] THEN "closing" ELSE "open"]
  /\ closeQueued' = [closeQueued EXCEPT ![i] = FALSE]
  /\ UNCHANGED <<errorMessage, aiSpeaking, userTranscript, aiTranscript,
                 currentTip, mounted, inputContextRef, outputContextRef,
                 streamRef, sessionPromiseRef, nextStartTimeRef,
                 audioSourcesRef, tipTimeoutRef, nStarts, pc, stream, inCtx,
                 outCtx, clock, outNode, stoppedEarly, playVars, toolVars>>
  /\ UNCHANGED heard

\* onclose: the remote end closed, or the close handshake of session.close()
\* finished
OnClose(i) ==
  /\ chan[i] \in {"open", "closing"}
  /\ StopSessionBody([chan EXCEPT ![i] = "closed"])
  /\ UNCHANGED <<errorMessage, mounted>>

\* the socket failed: its error event and its close event are fired in one
\* task, so onerror runs and then onclose, whose stopSession finds nothing
\* left to do; the session promise of a socket that never opened stays pending
OnError(i) ==
  /\ chan[i] \in {"connecting", "open", "closing"}
  /\ errorMessage' = ConnError
  /\ StopSessionBody([chan EXCEPT ![i] = "closed"])
  /\ UNCHANGED mounted

\* ---------------------------------------------------------------- onmessage
\* an inbound LiveServerMessage: inTx / outTx the transcription text (0 when
\* absent), calls the functionCalls of toolCall, audio the duration of the
\* inline audio chunk (0 when absent)
Msg(inTx, outTx, turnComplete, calls, audio, interrupted) ==
  [inTx |-> inTx, outTx |-> outTx, turnComplete |-> turnComplete,
   calls |-> calls, audio |-> audio, interrupted |-> interrupted]

Call(name, args) == [name |-> name, args |-> args]

IsTip(call) == call.name = TipTool

\* an interruption that leaves the sources playing
StopNone(cs, srcs) == cs

\* src.stop() on every member of the active set
StopAll(cs, srcs) ==
  [c \in DOMAIN cs |->
     IF c \in srcs THEN [cs[c] EXCEPT !.state = "stopped"] ELSE cs[c]]

\* a dispatcher that acknowledges the first function call of a message only
ResponsesFirstOnly(calls, firstId, i) ==
  [k \in 1..(IF Len(calls) > 0 THEN 1 ELSE 0) |->
     [id |-> firstId + k, name |-> calls[k].name, result |-> "OK", sess |-> i]]

\* functionResponses: calls.map(c => ({id, name, response: {result: "OK"}}))
Responses(calls, firstId, i) ==
  [k \in 1..Len(calls) |->
     [id |-> firstId + k, name |-> calls[k].name, result |-> "OK", sess |-> i]]

\* a scheduler that restarts from the output clock at every chunk
EnsureTimingNow(next, now) == now

\* the value passed to nextStartTimeRef before the await ("Ensure timing")
EnsureTiming(next, now) == Max(next, now)

\* a handler that shows the latest fragment only
ReplaceRemote(prev, text) == <<text>>

\* setAiTranscript(prev => prev + text)
AppendRemote(prev, text) == Append(prev, text)

\* the number of interrupted signals received, processed or not
IntrSeen ==
  intrCount + Cardinality({c \in DOMAIN chunks :
                             chunks[c].state = "decoding" /\ chunks[c].intr})

\* onmessage of channel i up to its first await or its return, and the
\* sendToolResponse that runs right after it
OnMessage(i, m) ==
  /\ chan[i] = "open"
  /\ m.audio > 0 => Len(chunks) < MaxChunks
  /\ Len(toolCalls) + Len(m.calls) <= MaxCalls
  /\ m.interrupted => IntrSeen < MaxInterrupts
  /\ m.outTx # 0 => Len(aiTranscript) < MaxTranscript
  /\ LET tips == SelectSeq(m.calls, IsTip)
         k == Len(tips)
         t1 == IF m.outTx # 0 THEN AppendRemote(aiTranscript, m.outTx)
                              ELSE aiTranscript
         t2 == IF m.turnComplete THEN <<>> ELSE t1
         hasAudio == m.audio > 0
         awaits == hasAudio /\ outputContextRef # 0
         intrNow == ~hasAudio /\ m.interrupted
     IN
       /\ userTranscript' = IF m.inTx # 0 THEN <<m.inTx>> ELSE userTranscript
       /\ aiTranscript' = IF intrNow THEN <<>> ELSE t2
       /\ currentTip' = IF k > 0 THEN <<tips[k].args>> ELSE currentTip
       /\ timers' = IF k > 0 THEN (timers \ {tipTimeoutRef}) \cup {nTimers + k}
                             ELSE timers
       /\ tipTimeoutRef' = IF k > 0 THEN nTimers + k ELSE tipTimeoutRef
       /\ nTimers' = nTimers + k
       /\ toolCalls' = toolCalls \o
            [j \in 1..Len(m.calls) |->
               [id |-> Len(toolCalls) + j, name |-> m.calls[j].name,
                args |-> m.calls[j].args, sess |-> i]]
       /\ toolResponses' = toolResponses \o Responses(m.calls, Len(toolCalls), i)
       /\ aiSpeaking' = IF hasAudio THEN TRUE
                        ELSE IF intrNow THEN FALSE ELSE aiSpeaking
       /\ nextStartTimeRef' =
            IF awaits THEN EnsureTiming(nextStartTimeRef, clock[outputContextRef])
            ELSE IF intrNow THEN 0 ELSE nextStartTimeRef
       /\ chunks' =
            IF awaits
              THEN Append(chunks,
                     [sess |-> i, node |-> outNode[i], dur |-> m.audio,
                      epoch |-> intrCount, intr |-> m.interrupted,
                      state |-> "decoding", when |-> 0, begin |-> 0,
                      ctx |-> 0, ord |-> 0, sepoch |-> 0])
            ELSE IF hasAudio
              THEN Append(chunks,
                     [sess |-> i, node |-> outNode[i], dur |-> m.audio,
                      epoch |-> intrCount, intr |-> m.interrupted,
                      state |-> "dropped", when |-> 0, begin |-> 0,
                      ctx |-> 0, ord |-> 0, sepoch |-> 0])
            ELSE IF intrNow THEN StopAll(chunks, audioSourcesRef)
            ELSE chunks
       /\ audioSourcesRef' = IF intrNow THEN {} ELSE audioSourcesRef
       /\ intrCount' = IF intrNow THEN intrCount + 1 ELSE intrCount
  /\ UNCHANGED <<isConnected, status, errorMessage, mounted, inputContextRef,
                 outputContextRef, streamRef, processorRef, sourceRef,
                 sessionPromiseRef, sessVars, nSched>>
  /\ heard' = IF m.turnComplete \/ m.interrupted THEN <<>>
              ELSE IF m.outTx # 0 THEN Append(heard, m.outTx) ELSE heard

\* the start time source.start is given, and the value nextStartTimeRef takes
StartTime(next) == next
NextStart(next, dur) == next + dur

\* the promise of decodeAudioData for chunk c is not settled yet: decoding
\* is asynchronous per chunk, and the promises settle in any order
DecodePending(c) == c \in DOMAIN chunks /\ chunks[c].state = "decoding"

\* decodeAudioData resolved: the rest of onmessage for chunk c
DecodeDone(c) ==
  /\ DecodePending(c)
  /\ IF outputContextRef = 0 \/ chunks[c].node # outputContextRef
       THEN \* createBufferSource on null, or connect to a node of another
            \* context, throws out of the handler
            /\ chunks' = [chunks EXCEPT ![c].state = "dropped"]
            /\ UNCHANGED <<aiSpeaking, aiTranscript, nextStartTimeRef,
                           audioSourcesRef, nSched, intrCount>>
       ELSE LET when == StartTime(nextStartTimeRef)
                seg == [chunks[c] EXCEPT
                          !.state = "scheduled",
                          !.when = when,
                          !.begin = Max(when, clock[outputContextRef]),
                          !.ctx = outputContextRef,
                          !.ord = nSched + 1,
                          !.sepoch = intrCount]
                cs == [chunks EXCEPT ![c] = seg]
            IN /\ nSched' = nSched + 1
               /\ IF chunks[c].intr
                    THEN /\ chunks' = StopAll(cs, audioSourcesRef \cup {c})
                         /\ audioSourcesRef' = {}
                         /\ nextStartTimeRef' = 0
                         /\ aiSpeaking' = FALSE
                         /\ aiTranscript' = <<>>
                         /\ intrCount' = intrCount + 1
                    ELSE /\ chunks' = cs
                         /\ audioSourcesRef' = audioSourcesRef \cup {c}
                         /\ nextStartTimeRef' =
                              NextStart(nextStartTimeRef, chunks[c].dur)
                         /\ UNCHANGED <<aiSpeaking, aiTranscript, intrCount>>
  /\ UNCHANGED <<isConnected, status, errorMessage, userTranscript,
                 currentTip, mounted, inputContextRef, outputContextRef,
                 streamRef, processorRef, sourceRef, sessionPromiseRef,
                 tipTimeoutRef, sessVars, toolVars>>
  /\ UNCHANGED heard

\* decodeAudioData rejected (malformed audio data): onmessage ends there
DecodeFailed(c) ==
  /\ DecodePending(c)
  /\ chunks' = [chunks EXCEPT ![c].state = "dropped"]
  /\ UNCHANGED <<uiVars, refVars, sessVars, nSched, intrCount, toolVars>>
  /\ UNCHANGED heard

\* the output clock of context i advances
Tick(i) ==
  /\ outCtx[i] = "running"
  /\ clock[i] < MaxTime
  /\ clock' = [clock EXCEPT ![i] = @ + 1]
  /\ UNCHANGED <<uiVars, refVars, nStarts, pc, stream, inCtx, outCtx, outNode,
                 chan, closeQueued, stoppedEarly, playVars, toolVars>>
  /\ UNCHANGED heard

\* a segment is over: it played to its end, or stop() was called on it
Over(c) ==
  /\ outCtx[chunks[c].ctx] = "running"
  /\ \/ chunks[c].state = "stopped"
     \/ /\ chunks[c].state = "scheduled"
        /\ clock[chunks[c].ctx] >= chunks[c].begin + chunks[c].dur

\* source.onended of chunk c
SourceEnded(c) ==
  /\ c \in DOMAIN chunks
  /\ chunks[c].state \in {"scheduled", "stopped"}
  /\ Over(c)
  /\ chunks' = [chunks EXCEPT ![c].state = "ended"]
  /\ audioSourcesRef' = audioSourcesRef \ {c}
  /\ aiSpeaking' = IF audioSourcesRef \ {c} = {} THEN FALSE ELSE aiSpeaking
  /\ UNCHANGED <<isConnected, status, errorMessage, userTranscript,
                 aiTranscript, currentTip, mounted, inputContextRef,
                 outputContextRef, streamRef, processorRef, sourceRef,
                 sessionPromiseRef, nextStartTimeRef, tipTimeoutRef, sessVars,
                 nSched, intrCount, toolVars>>
  /\ UNCHANGED heard

\* --------------------------------------------------------------------- tip
\* the dismiss button of the tip overlay
DismissTip ==
  /\ mounted
  /\ currentTip # NoTip
  /\ currentTip' = NoTip
  /\ UNCHANGED <<isConnected, status, errorMessage, aiSpeaking, userTranscript,
                 aiTranscript, mounted, refVars, sessVars, playVars, toolVars>>
  /\ UNCHANGED heard

\* the 8 second timeout t fires
TipTimeout(t) ==
  /\ t \in timers
  /\ timers' = timers \ {t}
  /\ currentTip' = NoTip
  /\ UNCHANGED <<isConnected, status, errorMessage, aiSpeaking, userTranscript,
                 aiTranscript, mounted, refVars, sessVars, playVars, toolCalls,
                 toolResponses, nTimers>>
  /\ UNCHANGED heard

\* ------------------------------------------------------------------ inputs
Durations == 1..MaxDur

\* audio chunks and an interrupted signal
AudioMsgs ==
  {Msg(0, 0, FALSE, <<>>, d, FALSE) : d \in Durations}
    \cup {Msg(0, 0, FALSE, <<>>, 0, TRUE)}

\* a message carrying an audio chunk and the interrupted signal
MixedMsgs == {Msg(0, 0, FALSE, <<>>, 1, TRUE)}

ArgSets == {{"word", "tip"}, {"word"}, {}}
ToolNames == {TipTool, "otherTool"}
Calls == {Call(n, a) : n \in ToolNames, a \in ArgSets}

\* a tool call message with one or two function calls
ToolMsgs ==
  {Msg(0, 0, FALSE, <<c>>, 0, FALSE) : c \in Calls}
    \cup {Msg(0, 0, FALSE, <<c, Call(TipTool, {"word", "tip"})>>, 0, FALSE) :
             c \in Calls}

\* transcription fragments and turn boundaries
TextMsgs ==
  {Msg(1, 0, FALSE, <<>>, 0, FALSE), Msg(0, 1, FALSE, <<>>, 0, FALSE),
   Msg(0, 2, TRUE, <<>>, 0, FALSE), Msg(0, 0, TRUE, <<>>, 0, FALSE),
   Msg(0, 0, FALSE, <<>>, 0, TRUE)}

\* ---------------------------------------------------------- specifications
\* the session life cycle: start, acquisition, channel callbacks, stop
NextLife ==
  \/ StartSession(MaxSessions)
  \/ \E i \in Sessions : MicResolved(i)
  \/ \E i \in Sessions : MicRejected(i)
  \/ \E i \in Sessions : OnOpen(i)
  \/ \E i \in Sessions : OnClose(i)
  \/ \E i \in Sessions : OnError(i)
  \/ StopSession
  \/ Unmount

SpecLife == Init /\ [][NextLife]_vars

\* playback scheduling within one session

NextPlay ==
  \/ StartSession(MaxSessions)
  \/ \E i \in Sessions : MicResolved(i)
  \/ \E i \in Sessions : OnOpen(i)
  \/ \E i \in Sessions : \E m \in AudioMsgs : OnMessage(i, m)
  \/ \E c \in 1..MaxChunks : DecodeDone(c)
  \/ \E c \in 1..MaxChunks : DecodeFailed(c)
  \/ \E i \in Sessions : Tick(i)
  \/ \E c \in 1..MaxChunks : SourceEnded(c)

SpecPlay == Init /\ [][NextPlay]_vars

\* tool calls, transcripts and the tip within the first ToolSessions sessions
ToolSessions == 1

NextTool ==
  \/ StartSession(ToolSessions)
  \/ \E i \in Sessions : MicResolved(i)
  \/ \E i \in Sessions : OnOpen(i)
  \/ \E i \in Sessions : \E m \in ToolMsgs \cup TextMsgs : OnMessage(i, m)
  \/ DismissTip
  \/ \E t \in 1..MaxCalls : TipTimeout(t)
  \/ StopSession
  \/ \E i \in Sessions : OnClose(i)
  \/ \E i \in Sessions : OnError(i)

SpecTool == Init /\ [][NextTool]_vars

\* the same operations; a pending timeout fires in the end
SpecToolFair ==
  Init /\ [][NextTool]_vars /\ WF_vars(\E t \in 1..MaxCalls : TipTimeout(t))

\* playback across sessions: a session is stopped and another one started
NextReplay ==
  \/ StartSession(MaxSessions)
  \/ \E i \in Sessions : MicResolved(i)
  \/ \E i \in Sessions : OnOpen(i)
  \/ \E i \in Sessions : \E m \in AudioMsgs : OnMessage(i, m)
  \/ \E c \in 1..MaxChunks : DecodeDone(c)
  \/ \E i \in Sessions : Tick(i)
  \/ \E c \in 1..MaxChunks : SourceEnded(c)
  \/ StopSession
  \/ \E i \in Sessions : OnClose(i)

SpecReplay == Init /\ [][NextReplay]_vars

\* an output-transcription fragment
FragmentMsgs == {Msg(0, 1, FALSE, <<>>, 0, FALSE)}

\* interruptions within one session, at one instant of the output clock:
\* audio chunks, transcript fragments and the interrupted signal, alone or in
\* the message of a chunk
NextIntr ==
  \/ StartSession(MaxSessions)
  \/ \E i \in Sessions : MicResolved(i)
  \/ \E i \in Sessions : OnOpen(i)
  \/ \E i \in Sessions :
       \E m \in AudioMsgs \cup MixedMsgs \cup FragmentMsgs : OnMessage(i, m)
  \/ \E c \in 1..MaxChunks : DecodeDone(c)
  \/ \E c \in 1..MaxChunks : SourceEnded(c)

SpecIntr == Init /\ [][NextIntr]_vars

\* every operation
Next ==
  \/ NextLife
  \/ NextPlay
  \/ NextTool
  \/ \E i \in Sessions : \E m \in MixedMsgs : OnMessage(i, m)

Spec == Init /\ [][Next]_vars

\* ------------------------------------------------------------------ claims
Scheduled == {c \in DOMAIN chunks : chunks[c].ord > 0}

\* the segment is in the active set or can still sound
Active(c) == c \in audioSourcesRef \/ chunks[c].state = "scheduled"

\* C1: of two segments scheduled with no interruption processed between
\* them, the later one starts no earlier than the start of the earlier one
\* plus its duration; so start times never decrease and segments never overlap
C1_NonOverlapping ==
  \A a \in Scheduled : \A b \in Scheduled :
    (chunks[a].ord < chunks[b].ord /\ chunks[a].sepoch = chunks[b].sepoch)
      => chunks[b].when >= chunks[a].when + chunks[a].dur

\* two segments scheduled back to back, the first one at a clock value
\* later than the start of the context
C1_Witness ==
  \E a \in Scheduled : \E b \in Scheduled :
    /\ chunks[b].ord = chunks[a].ord + 1
    /\ chunks[a].sepoch = chunks[b].sepoch
    /\ chunks[a].when > 0

\* C2: once an interrupted signal has been processed, no chunk received
\* before it is in the active set or can still sound, a chunk that was being
\* decoded when the signal was processed included
C2_InterruptIsTotal ==
  \A c \in DOMAIN chunks : Active(c) => chunks[c].epoch = intrCount

\* the responses sent for the invocation with correlation id n
AcksOf(n) == {j \in DOMAIN toolResponses : toolResponses[j].id = n}

\* C3: every tool invocation delivered is acknowledged exactly once, by a
\* response with its id and its name, sent on the channel it arrived on
C3_AcknowledgedOnce ==
  \A k \in DOMAIN toolCalls :
    /\ Cardinality(AcksOf(toolCalls[k].id)) = 1
    /\ \A j \in AcksOf(toolCalls[k].id) :
         /\ toolResponses[j].name = toolCalls[k].name
         /\ toolResponses[j].sess = toolCalls[k].sess

\* a message with two invocations, one of an unknown tool and one with no
\* arguments, has been acknowledged
C3_Witness ==
  /\ Len(toolCalls) >= 2
  /\ \E k \in DOMAIN toolCalls : toolCalls[k].name # TipTool
  /\ \E k \in DOMAIN toolCalls : toolCalls[k].args = {}
  /\ Len(toolResponses) >= 2

ValidTip(name, args) == name = TipTool /\ {"word", "tip"} \subseteq args

\* C4: an invocation is acknowledged with "OK", and a tip is shown, only for
\* showPronunciationTip with both word and tip present
C4_OkOnlyWhenValid ==
  /\ \A k \in DOMAIN toolCalls : \A j \in AcksOf(toolCalls[k].id) :
       toolResponses[j].result = "OK"
         => ValidTip(toolCalls[k].name, toolCalls[k].args)
  /\ currentTip # NoTip => {"word", "tip"} \subseteq currentTip[1]

\* no microphone stream is live and no audio context is open
Released ==
  \A j \in Sessions :
    stream[j] # "live" /\ inCtx[j] # "running" /\ outCtx[j] # "running"

\* the acquisition steps of invocation i have all run
Settled(i) == pc[i] = "done" /\ chan[i] \in {"none", "closed"}

\* C5: when stopSession ran while the latest startSession was acquiring,
\* then once its acquisition steps have run the status is idle (as long as
\* the component is mounted) and nothing is held
C5_StopWhileConnecting ==
  \A i \in stoppedEarly :
    (i = nStarts /\ Settled(i))
      => (mounted => status = "idle") /\ Released

\* C6: the microphone stream and the audio contexts are held only while the
\* status is connecting or active
C6_HeldOnlyWhileInSession ==
  (mounted /\ status \notin {"connecting", "active"}) => Released

\* C7: from a failure until the next start (while the error message is
\* set) the status is error
C7_FailureIsError ==
  (mounted /\ errorMessage # NoError) => status = "error"

\* a step that runs stopSession
Teardown ==
  \/ StopSession
  \/ \E i \in Sessions : OnClose(i)
  \/ \E i \in Sessions : OnError(i)

\* C8: right after stopSession both transcripts are empty and no tip shows
C8_TeardownClears ==
  [][Teardown => /\ userTranscript' = <<>>
                 /\ aiTranscript' = <<>>
                 /\ currentTip' = NoTip]_vars

\* the acquisition of invocation i is in flight, or its channel is open
InFlight(i) == pc[i] = "awaitMic" \/ chan[i] \in {"connecting", "open"}

\* C9: at most one startSession invocation is acquiring or connected
C9_OneSession == Cardinality({i \in Sessions : InFlight(i)}) <= 1

\* C10: of two chunks with no interruption processed between the arrival of
\* the first and the scheduling of the second, the one that arrived first is
\* scheduled first, and not later in time
C10_ArrivalOrder ==
  \A a \in DOMAIN chunks : \A b \in Scheduled :
    (a < b /\ chunks[a].state # "dropped" /\ chunks[a].epoch = chunks[b].sepoch)
      => /\ chunks[a].ord > 0
         /\ chunks[a].ord < chunks[b].ord
         /\ chunks[a].when <= chunks[b].when

\* C11: the step that processes an interrupted signal stops every segment of
\* the active set, empties the set, resets the scheduling clock to zero,
\* empties the remote transcript and clears the remote-is-speaking flag
C11_InterruptResets ==
  [][intrCount' = intrCount + 1
       => /\ \A c \in audioSourcesRef : chunks'[c].state = "stopped"
          /\ audioSourcesRef' = {}
          /\ nextStartTimeRef' = 0
          /\ aiTranscript' = <<>>
          /\ aiSpeaking' = FALSE]_vars

\* an interrupted signal was processed while two segments were queued
C11_Witness ==
  /\ intrCount > 0
  /\ Cardinality({c \in DOMAIN chunks : chunks[c].state = "stopped"}) >= 2
  /\ audioSourcesRef = {}
  /\ nextStartTimeRef = 0

C13_TipIsHidden ==
  /\ (currentTip # NoTip) ~> (currentTip = NoTip)
  /\ [](Cardinality(timers) <= 1)

\* C14: the start time given to source.start is never earlier than the output
\* clock at that moment, so the segment begins at the time it was given and
\* its recorded end is its true end
C14_StartNotInThePast ==
  \A c \in Scheduled : chunks[c].when = chunks[c].begin

\* C15: when a session becomes active the scheduling clock is zero and the
\* active set is empty
C15_FreshPlayback ==
  [][(status # "active" /\ status' = "active")
       => (nextStartTimeRef' = 0 /\ audioSourcesRef' = {})]_vars

\* C16: the close of an earlier session's channel, arriving after a later
\* session was started, leaves the later session's status, microphone, audio
\* contexts and channel as they are
C16_StaleCallbackHarmless ==
  [][\A i \in Sessions :
       (/\ mounted
        /\ i < nStarts
        /\ InFlight(nStarts)
        /\ chan[i] = "closing"
        /\ chan'[i] = "closed")
       => /\ status' = status
          /\ stream'[nStarts] = stream[nStarts]
          /\ inCtx'[nStarts] = inCtx[nStarts]
          /\ outCtx'[nStarts] = outCtx[nStarts]
          /\ chan'[nStarts] = chan[nStarts]
          /\ closeQueued'[nStarts] = closeQueued[nStarts]]_vars

\* C17: while the status is idle or error the "remote is speaking" flag is
\* false
C17_SilentWhenStopped ==
  (mounted /\ status \in {"idle", "error"}) => ~aiSpeaking

====
